---- MODULE Spec2Model ----
(***************************************************************************)
(* Model of the wino_identity Anchor program                               *)
(* (programs/wino_identity/src/lib.rs).                                    *)
(*                                                                         *)
(* The ledger is a map from program-derived addresses to account data.     *)
(* Every instruction is one atomic transition: the runtime serialises      *)
(* transactions that write the same account and discards every account     *)
(* change of an instruction that returns an error.                         *)
(*                                                                         *)
(* An instruction runs in the order the Anchor entry point imposes:        *)
(*   1. the accounts struct is validated (CreateIdentity / UpdateIdentity),*)
(*      `init` allocating the account, `seeds` before `constraint`;        *)
(*   2. the handler runs (create_identity / update_identity);              *)
(*   3. the account is written back only when the handler returned Ok.     *)
(***************************************************************************)
EXTENDS Integers, Sequences, FiniteSets, TLC

VARIABLES accounts, clock, last, pending, log

vars == <<accounts, clock, last, pending, log>>

----------------------------------------------------------------------------
(* Bounds of the model *)

\* Clock.unix_timestamp ranges over 0..MaxClock
MaxClock == 1

----------------------------------------------------------------------------
(* Program constants *)

MAX_NAME_LENGTH == 64

MAX_LOGO_URI_LENGTH == 200

IDENTITY_SEED == "wino_business_identity"

\* Wallets that sign instructions
Principals == {"A", "B"}

\* Pubkey::default(), the authority field of a freshly allocated account
DefaultPubkey == "11111111111111111111111111111111"

\* The canonical bump find_program_address returns for a wallet's seeds
CanonicalBump(key) == IF key = "A" THEN 255 ELSE 254

\* Pubkey::create_program_address(&[IDENTITY_SEED, key, &[bump]]): the hash
\* is modelled as an injective function of its inputs
CreateProgramAddress(key, bump) == <<IDENTITY_SEED, key, bump>>

\* Pubkey::find_program_address(&[IDENTITY_SEED, key]) = (address, bump)
FindProgramAddress(key) ==
    [address |-> CreateProgramAddress(key, CanonicalBump(key)),
     bump    |-> CanonicalBump(key)]

\* The identity accounts callers can pass: every wallet's derived address
Addresses == {FindProgramAddress(k).address : k \in Principals}

\* An address that holds no account (owned by the system program, no data)
Uninitialized == [authority |-> "none"]

\* The zero-filled account `init` allocates before the handler runs
ZeroedIdentity ==
    [authority     |-> DefaultPubkey,
     identity_type |-> 0,
     name          |-> <<>>,
     logo_uri      |-> <<>>,
     created_at    |-> 0,
     updated_at    |-> 0,
     bump          |-> 0]

\* A byte string of n copies of c
Rep(c, n) == [i \in 1..n |-> c]

\* Names passed by callers: empty, shortest, longest allowed, one too long
NameInputs ==
    {Rep("a", 0), Rep("a", 1), Rep("b", MAX_NAME_LENGTH),
     Rep("c", MAX_NAME_LENGTH + 1)}

\* Logo URIs passed by callers: empty, longest allowed, one too long
LogoInputs ==
    {Rep("u", 0), Rep("v", MAX_LOGO_URI_LENGTH),
     Rep("w", MAX_LOGO_URI_LENGTH + 1)}

----------------------------------------------------------------------------
(* Account validation: #[derive(Accounts)] structs *)

\* CreateIdentity with init_if_needed in place of init: an existing account
\* is accepted and handed to the handler
CreateIdentity_if_needed(accts, authority, identity) ==
    IF identity # FindProgramAddress(authority).address
    THEN [err |-> "ConstraintSeeds", accounts |-> accts]
    ELSE IF accts[identity] # Uninitialized
         THEN [err |-> "Ok", accounts |-> accts]
         ELSE [err |-> "Ok",
               accounts |-> [accts EXCEPT ![identity] = ZeroedIdentity]]

\* CreateIdentity: the identity account must be the address derived from
\* [IDENTITY_SEED, authority] and `init` allocates it; the system program
\* refuses to allocate an address that already holds an account
CreateIdentity(accts, authority, identity) ==
    IF identity # FindProgramAddress(authority).address
    THEN [err |-> "ConstraintSeeds", accounts |-> accts]
    ELSE IF accts[identity] # Uninitialized
         THEN [err |-> "AccountInUse", accounts |-> accts]
         ELSE [err |-> "Ok",
               accounts |-> [accts EXCEPT ![identity] = ZeroedIdentity]]

\* UpdateIdentity: the account must deserialize as a BusinessIdentity, its
\* address must be the one derived from [IDENTITY_SEED, authority,
\* identity.bump], and its stored authority must be the signer
UpdateIdentity(accts, authority, identity) ==
    IF accts[identity] = Uninitialized
    THEN "AccountNotInitialized"
    ELSE IF identity # CreateProgramAddress(authority, accts[identity].bump)
         THEN "ConstraintSeeds"
         ELSE IF accts[identity].authority # authority
              THEN "Unauthorized"
              ELSE "Ok"

----------------------------------------------------------------------------
(* Instruction handlers *)

\* create_identity rejecting a name of exactly MAX_NAME_LENGTH bytes
\* (`<` written for `<=`)
create_identity_name_lt(acct, authority, name, logo_uri, now, bump) ==
    IF ~(Len(name) > 0 /\ Len(name) < MAX_NAME_LENGTH)
    THEN [err |-> "InvalidNameLength", identity |-> acct]
    ELSE IF ~(Len(logo_uri) <= MAX_LOGO_URI_LENGTH)
         THEN [err |-> "InvalidLogoUriLength", identity |-> acct]
         ELSE [err |-> "Ok",
               identity |-> [authority     |-> authority,
                             identity_type |-> 1,
                             name          |-> name,
                             logo_uri      |-> logo_uri,
                             created_at    |-> now,
                             updated_at    |-> now,
                             bump          |-> bump]]

\* create_identity without the `name.len() > 0` half of the name check
create_identity_empty_name(acct, authority, name, logo_uri, now, bump) ==
    IF ~(Len(name) <= MAX_NAME_LENGTH)
    THEN [err |-> "InvalidNameLength", identity |-> acct]
    ELSE IF ~(Len(logo_uri) <= MAX_LOGO_URI_LENGTH)
         THEN [err |-> "InvalidLogoUriLength", identity |-> acct]
         ELSE [err |-> "Ok",
               identity |-> [authority     |-> authority,
                             identity_type |-> 1,
                             name          |-> name,
                             logo_uri      |-> logo_uri,
                             created_at    |-> now,
                             updated_at    |-> now,
                             bump          |-> bump]]

\* create_identity without the logo_uri length check
create_identity_no_logo_check(acct, authority, name, logo_uri, now, bump) ==
    IF ~(Len(name) > 0 /\ Len(name) <= MAX_NAME_LENGTH)
    THEN [err |-> "InvalidNameLength", identity |-> acct]
    ELSE [err |-> "Ok",
          identity |-> [authority     |-> authority,
                        identity_type |-> 1,
                        name          |-> name,
                        logo_uri      |-> logo_uri,
                        created_at    |-> now,
                        updated_at    |-> now,
                        bump          |-> bump]]

\* create_identity(ctx, name, logo_uri); `acct` is ctx.accounts.identity
create_identity(acct, authority, name, logo_uri, now, bump) ==
    IF ~(Len(name) > 0 /\ Len(name) <= MAX_NAME_LENGTH)
    THEN [err |-> "InvalidNameLength", identity |-> acct]
    ELSE IF ~(Len(logo_uri) <= MAX_LOGO_URI_LENGTH)
         THEN [err |-> "InvalidLogoUriLength", identity |-> acct]
         ELSE [err |-> "Ok",
               identity |-> [authority     |-> authority,
                             identity_type |-> 1,
                             name          |-> name,
                             logo_uri      |-> logo_uri,
                             created_at    |-> now,
                             updated_at    |-> now,
                             bump          |-> bump]]

\* update_identity stamping created_at where it should stamp updated_at
update_identity_stamps_created(acct, name, logo_uri, now) ==
    IF ~(Len(name) > 0 /\ Len(name) <= MAX_NAME_LENGTH)
    THEN [err |-> "InvalidNameLength", identity |-> acct]
    ELSE IF ~(Len(logo_uri) <= MAX_LOGO_URI_LENGTH)
         THEN [err |-> "InvalidLogoUriLength", identity |-> acct]
         ELSE [err |-> "Ok",
               identity |-> [acct EXCEPT !.name       = name,
                                         !.logo_uri   = logo_uri,
                                         !.created_at = now]]

\* update_identity refreshing both timestamps, as create_identity does
update_identity_resets_created(acct, name, logo_uri, now) ==
    IF ~(Len(name) > 0 /\ Len(name) <= MAX_NAME_LENGTH)
    THEN [err |-> "InvalidNameLength", identity |-> acct]
    ELSE IF ~(Len(logo_uri) <= MAX_LOGO_URI_LENGTH)
         THEN [err |-> "InvalidLogoUriLength", identity |-> acct]
         ELSE [err |-> "Ok",
               identity |-> [acct EXCEPT !.name       = name,
                                         !.logo_uri   = logo_uri,
                                         !.created_at = now,
                                         !.updated_at = now]]

\* update_identity without its length checks
update_identity_unchecked(acct, name, logo_uri, now) ==
    [err |-> "Ok",
     identity |-> [acct EXCEPT !.name       = name,
                               !.logo_uri   = logo_uri,
                               !.updated_at = now]]

\* update_identity(ctx, name, logo_uri); `acct` is ctx.accounts.identity
update_identity(acct, name, logo_uri, now) ==
    IF ~(Len(name) > 0 /\ Len(name) <= MAX_NAME_LENGTH)
    THEN [err |-> "InvalidNameLength", identity |-> acct]
    ELSE IF ~(Len(logo_uri) <= MAX_LOGO_URI_LENGTH)
         THEN [err |-> "InvalidLogoUriLength", identity |-> acct]
         ELSE [err |-> "Ok",
               identity |-> [acct EXCEPT !.name       = name,
                                         !.logo_uri   = logo_uri,
                                         !.updated_at = now]]

----------------------------------------------------------------------------
(* The program entry point: one instruction, start to finish *)

\* A transaction: the instruction, its signer, the identity account it
\* passes and the two string arguments
Tx(op, authority, identity, name, logo_uri) ==
    [op |-> op, authority |-> authority, identity |-> identity,
     name |-> name, logo_uri |-> logo_uri]

\* ExecuteCreate keeping the account `init` allocated when the handler
\* fails
ExecuteCreate_keeps_allocation(accts, tx, now) ==
    LET v == CreateIdentity(accts, tx.authority, tx.identity)
    IN  IF v.err # "Ok"
        THEN [err |-> v.err, accounts |-> accts]
        ELSE LET h == create_identity(v.accounts[tx.identity], tx.authority,
                                      tx.name, tx.logo_uri, now,
                                      FindProgramAddress(tx.authority).bump)
             IN  [err |-> h.err,
                  accounts |-> [v.accounts EXCEPT
                                   ![tx.identity] = h.identity]]

\* wino_identity::create_identity, accounts validated first, then the
\* handler; an error of either discards the allocation
ExecuteCreate(accts, tx, now) ==
    LET v == CreateIdentity(accts, tx.authority, tx.identity)
    IN  IF v.err # "Ok"
        THEN [err |-> v.err, accounts |-> accts]
        ELSE LET h == create_identity(v.accounts[tx.identity], tx.authority,
                                      tx.name, tx.logo_uri, now,
                                      FindProgramAddress(tx.authority).bump)
             IN  IF h.err # "Ok"
                 THEN [err |-> h.err, accounts |-> accts]
                 ELSE [err |-> "Ok",
                       accounts |-> [v.accounts EXCEPT
                                        ![tx.identity] = h.identity]]

\* wino_identity::update_identity, accounts validated first, then the
\* handler; the account is written back only on Ok
ExecuteUpdate(accts, tx, now) ==
    LET e == UpdateIdentity(accts, tx.authority, tx.identity)
    IN  IF e # "Ok"
        THEN [err |-> e, accounts |-> accts]
        ELSE LET h == update_identity(accts[tx.identity], tx.name,
                                      tx.logo_uri, now)
             IN  IF h.err # "Ok"
                 THEN [err |-> h.err, accounts |-> accts]
                 ELSE [err |-> "Ok",
                       accounts |-> [accts EXCEPT
                                        ![tx.identity] = h.identity]]

Execute(accts, tx, now) ==
    IF tx.op = "create"
    THEN ExecuteCreate(accts, tx, now)
    ELSE ExecuteUpdate(accts, tx, now)

----------------------------------------------------------------------------
(* State machine *)

NoCall ==
    [op |-> "none", authority |-> DefaultPubkey,
     identity |-> CreateProgramAddress("A", 255),
     name |-> <<>>, logo_uri |-> <<>>, result |-> "none"]

\* The record of the instruction that ran last and what it returned
Called(tx, result) ==
    [op |-> tx.op, authority |-> tx.authority, identity |-> tx.identity,
     name |-> tx.name, logo_uri |-> tx.logo_uri, result |-> result]

Init ==
    /\ accounts = [a \in Addresses |-> Uninitialized]
    /\ clock = 0
    /\ last = NoCall
    /\ pending = {}
    /\ log = <<>>

\* A wallet submits create_identity
Create ==
    \E authority \in Principals, identity \in Addresses,
       name \in NameInputs, logo_uri \in LogoInputs :
        LET tx == Tx("create", authority, identity, name, logo_uri)
            r  == Execute(accounts, tx, clock)
        IN  /\ accounts' = r.accounts
            /\ last' = Called(tx, r.err)
            /\ UNCHANGED <<clock, pending, log>>

\* A wallet submits update_identity
Update ==
    \E authority \in Principals, identity \in Addresses,
       name \in NameInputs, logo_uri \in LogoInputs :
        LET tx == Tx("update", authority, identity, name, logo_uri)
            r  == Execute(accounts, tx, clock)
        IN  /\ accounts' = r.accounts
            /\ last' = Called(tx, r.err)
            /\ UNCHANGED <<clock, pending, log>>

\* The cluster clock advances; it never runs backwards
Tick ==
    /\ clock < MaxClock
    /\ clock' = clock + 1
    /\ UNCHANGED <<accounts, last, pending, log>>

Next == Create \/ Update \/ Tick

Spec == Init /\ [][Next]_vars

----------------------------------------------------------------------------
(* Two create_identity transactions for one wallet in flight at once.      *)
(* Both write-lock the same identity account, so the runtime runs them one *)
(* after the other, in either order.                                       *)

InitRace ==
    /\ accounts = [a \in Addresses |-> Uninitialized]
    /\ clock = 0
    /\ last = NoCall
    /\ log = <<>>
    /\ \E owner \in Principals, n1 \in NameInputs, l1 \in LogoInputs,
          n2 \in NameInputs, l2 \in LogoInputs :
          pending =
            {[id |-> 1,
              tx |-> Tx("create", owner, FindProgramAddress(owner).address,
                        n1, l1)],
             [id |-> 2,
              tx |-> Tx("create", owner, FindProgramAddress(owner).address,
                        n2, l2)]}

\* The runtime picks any transaction in flight and runs it to completion
Run ==
    \E p \in pending :
        LET r == Execute(accounts, p.tx, clock)
        IN  /\ accounts' = r.accounts
            /\ last' = Called(p.tx, r.err)
            /\ pending' = pending \ {p}
            /\ log' = Append(log, [id |-> p.id, tx |-> p.tx, now |-> clock,
                                   result |-> r.err])
            /\ UNCHANGED clock

NextRace == Run \/ Tick

SpecRace == InitRace /\ [][NextRace]_vars

----------------------------------------------------------------------------
(* Properties *)

\* A step of an instruction: Create, Update and Run leave the clock alone
\* and record the instruction in last'; Tick advances the clock.  A call
\* that repeats the recorded one with the same outcome and no effect is a
\* stuttering step; the same call is also taken from the state that differs
\* only in `last`, reached by any other failing call, and is checked there.
Ran(op) == clock' = clock /\ last'.op = op

\* The call passes the identity account derived from its own signer
OwnAddress(c) == c.identity = FindProgramAddress(c.authority).address

ValidName(name) == Len(name) >= 1 /\ Len(name) <= MAX_NAME_LENGTH

ValidLogoUri(logo_uri) == Len(logo_uri) <= MAX_LOGO_URI_LENGTH

Exists(a) == accounts[a] # Uninitialized

\* C1: create called twice for one principal: the first call, with a valid
\* name and logo_uri, succeeds; the second fails whatever its arguments and
\* leaves the record of the first call as it was.
C1_CreateTwice ==
    [][ (Ran("create") /\ OwnAddress(last')) =>
          IF ~Exists(last'.identity)
          THEN (ValidName(last'.name) /\ ValidLogoUri(last'.logo_uri))
                  => /\ last'.result = "Ok"
                     /\ accounts'[last'.identity] # Uninitialized
          ELSE /\ last'.result # "Ok"
               /\ accounts' = accounts ]_vars

\* A second create with valid arguments was refused and the record stands
C1_Witness ==
    /\ last.op = "create"
    /\ last.result = "AccountInUse"
    /\ ValidName(last.name) /\ ValidLogoUri(last.logo_uri)
    /\ Exists(last.identity)
    /\ accounts[last.identity].authority = last.authority

\* C2: update by a principal other than the record's stored authority fails
\* with Unauthorized and leaves the record unchanged in every field.
C2_NonOwnerUnauthorized ==
    [][ ( /\ Ran("update")
          /\ Exists(last'.identity)
          /\ accounts[last'.identity].authority # last'.authority )
        => /\ last'.result = "Unauthorized"
           /\ accounts' = accounts ]_vars

\* C3: create by a principal without a record, with a name of 1..64 bytes
\* and a logo_uri of 0..200 bytes, succeeds; the record has the caller as
\* authority, the inputs as name and logo_uri, identity_type 1 and both
\* timestamps equal to the clock time of the call.
C3_CreateWritesInputs ==
    [][ ( /\ Ran("create")
          /\ OwnAddress(last')
          /\ ~Exists(last'.identity)
          /\ ValidName(last'.name)
          /\ ValidLogoUri(last'.logo_uri) )
        => /\ last'.result = "Ok"
           /\ accounts'[last'.identity] # Uninitialized
           /\ accounts'[last'.identity].authority = last'.authority
           /\ accounts'[last'.identity].name = last'.name
           /\ accounts'[last'.identity].logo_uri = last'.logo_uri
           /\ accounts'[last'.identity].identity_type = 1
           /\ accounts'[last'.identity].created_at = clock
           /\ accounts'[last'.identity].updated_at = clock ]_vars

\* A create with the longest name and logo_uri allowed went through
C3_Witness ==
    /\ last.op = "create"
    /\ last.result = "Ok"
    /\ Len(last.name) = MAX_NAME_LENGTH
    /\ Len(last.logo_uri) = MAX_LOGO_URI_LENGTH
    /\ accounts[last.identity].name = last.name
    /\ accounts[last.identity].created_at = clock

\* C4: a successful update sets name and logo_uri to the inputs and
\* updated_at to the clock time, and leaves authority, identity_type,
\* created_at and bump of that record and every other record unchanged.
C4_UpdateFrame ==
    [][ (Ran("update") /\ last'.result = "Ok")
        => /\ Exists(last'.identity)
           /\ accounts[last'.identity].authority = last'.authority
           /\ accounts'[last'.identity].name = last'.name
           /\ accounts'[last'.identity].logo_uri = last'.logo_uri
           /\ accounts'[last'.identity].updated_at = clock
           /\ accounts'[last'.identity].authority
                = accounts[last'.identity].authority
           /\ accounts'[last'.identity].identity_type
                = accounts[last'.identity].identity_type
           /\ accounts'[last'.identity].created_at
                = accounts[last'.identity].created_at
           /\ accounts'[last'.identity].bump = accounts[last'.identity].bump
           /\ \A a \in Addresses \ {last'.identity} :
                 accounts'[a] = accounts[a] ]_vars

\* An update went through after the clock moved, next to another record
C4_Witness ==
    /\ last.op = "update"
    /\ last.result = "Ok"
    /\ accounts[last.identity].updated_at > accounts[last.identity].created_at
    /\ accounts[last.identity].name = last.name
    /\ \E a \in Addresses \ {last.identity} : Exists(a)

\* C5 as stated: for every name of length 0 or over 64, any logo_uri and any
\* state, create fails with InvalidNameLength and no record is produced.
C5_AnyState ==
    [][ (Ran("create") /\ OwnAddress(last') /\ ~ValidName(last'.name))
        => /\ last'.result = "InvalidNameLength"
           /\ accounts' = accounts ]_vars

\* C5 amended: for every name of length 0 or over 64 and any logo_uri,
\* create by a principal that has no record fails with InvalidNameLength and
\* no record is produced; by a principal that has a record it fails with the
\* allocation collision and the record is unchanged.
C5_InvalidName ==
    [][ (Ran("create") /\ OwnAddress(last') /\ ~ValidName(last'.name))
        => /\ last'.result = IF Exists(last'.identity)
                             THEN "AccountInUse"
                             ELSE "InvalidNameLength"
           /\ accounts' = accounts ]_vars

\* A create with an empty name and an over-long logo_uri was refused for
\* its name, and the caller has no record
C5_Witness ==
    /\ last.op = "create"
    /\ last.result = "InvalidNameLength"
    /\ Len(last.name) = 0
    /\ ~ValidLogoUri(last.logo_uri)
    /\ ~Exists(last.identity)

\* C6 as stated: for every logo_uri over 200 bytes and any name, create
\* fails with InvalidLogoUriLength.
C6_AnyName ==
    [][ (Ran("create") /\ OwnAddress(last') /\ ~ValidLogoUri(last'.logo_uri))
        => last'.result = "InvalidLogoUriLength" ]_vars

\* C6 amended: for every logo_uri over 200 bytes and every name of 1..64
\* bytes, create by a principal that has no record fails with
\* InvalidLogoUriLength; the name is checked first, the allocation before
\* both.
C6_InvalidLogoUri ==
    [][ (Ran("create") /\ OwnAddress(last') /\ ~ValidLogoUri(last'.logo_uri))
        => /\ last'.result =
                IF Exists(last'.identity) THEN "AccountInUse"
                ELSE IF ~ValidName(last'.name) THEN "InvalidNameLength"
                ELSE "InvalidLogoUriLength"
           /\ accounts' = accounts ]_vars

\* A create with a valid name and an over-long logo_uri was refused for its
\* logo_uri
C6_Witness ==
    /\ last.op = "create"
    /\ last.result = "InvalidLogoUriLength"
    /\ ValidName(last.name)
    /\ Len(last.logo_uri) = MAX_LOGO_URI_LENGTH + 1
    /\ ~Exists(last.identity)

\* C7: every existing record has updated_at >= created_at.
C7_UpdatedNotBeforeCreated ==
    \A a \in Addresses :
        Exists(a) => accounts[a].updated_at >= accounts[a].created_at

\* A record updated after the clock moved past its creation
C7_Witness ==
    \E a \in Addresses :
        /\ Exists(a)
        /\ accounts[a].updated_at > accounts[a].created_at
        /\ last.op = "update"
        /\ last.result = "Ok"

\* C8: every existing record has 1 <= len(name) <= 64 and
\* 0 <= len(logo_uri) <= 200.
C8_LengthBounds ==
    \A a \in Addresses :
        Exists(a) =>
            /\ 1 <= Len(accounts[a].name)
            /\ Len(accounts[a].name) <= MAX_NAME_LENGTH
            /\ 0 <= Len(accounts[a].logo_uri)
            /\ Len(accounts[a].logo_uri) <= MAX_LOGO_URI_LENGTH

\* A record at both upper limits that an update with over-long arguments
\* has just been refused on
C8_Witness ==
    /\ last.op = "update"
    /\ last.result \in {"InvalidNameLength", "InvalidLogoUriLength"}
    /\ OwnAddress(last)
    /\ Exists(last.identity)
    /\ Len(accounts[last.identity].name) = MAX_NAME_LENGTH
    /\ Len(accounts[last.identity].logo_uri) = MAX_LOGO_URI_LENGTH

\* The record the create of log entry e writes when it runs alone
WrittenBy(e) ==
    [authority     |-> e.tx.authority,
     identity_type |-> 1,
     name          |-> e.tx.name,
     logo_uri      |-> e.tx.logo_uri,
     created_at    |-> e.now,
     updated_at    |-> e.now,
     bump          |-> CanonicalBump(e.tx.authority)]

\* Both transactions ran: one succeeded, the other hit the allocation
\* collision, and the record is the successful one's
OneWinner ==
    \E i \in {1, 2} :
        /\ log[i].result = "Ok"
        /\ log[3 - i].result = "AccountInUse"
        /\ accounts[log[i].tx.identity] = WrittenBy(log[i])

\* C9 as stated: two concurrent create attempts for one owner, in either
\* order, give one success and one allocation-collision failure, and the
\* record is the one the successful call alone would have written.  Read
\* in its favour: at least one attempt carries arguments create accepts.
C9_AnyArguments ==
    ( /\ Len(log) = 2
      /\ \E i \in {1, 2} : /\ ValidName(log[i].tx.name)
                           /\ ValidLogoUri(log[i].tx.logo_uri) )
    => OneWinner

\* C9 amended: two concurrent create attempts for one owner, each with a
\* name of 1..64 bytes and a logo_uri of 0..200 bytes, in either order, give
\* one success and one allocation-collision failure, and the record is the
\* one the successful call alone would have written.
C9_ValidArguments ==
    ( /\ Len(log) = 2
      /\ \A i \in {1, 2} : /\ ValidName(log[i].tx.name)
                           /\ ValidLogoUri(log[i].tx.logo_uri) )
    => OneWinner

\* Both attempts carried valid, different arguments, the one submitted
\* second ran first and won, at a later clock time than the loser ran
C9_Witness ==
    /\ Len(log) = 2
    /\ log[1].id = 2
    /\ log[1].result = "Ok"
    /\ log[2].result = "AccountInUse"
    /\ ValidName(log[2].tx.name) /\ ValidLogoUri(log[2].tx.logo_uri)
    /\ log[1].tx.name # log[2].tx.name
    /\ log[1].tx.logo_uri # log[2].tx.logo_uri
    /\ log[2].now > log[1].now
    /\ accounts[log[1].tx.identity].name = log[1].tx.name

\* C10: every failed create or update, whatever the failure, leaves the
\* whole set of records unchanged.
C10_FailureChangesNothing ==
    [][ ( /\ clock' = clock
          /\ last'.op \in {"create", "update"}
          /\ last'.result # "Ok" )
        => accounts' = accounts ]_vars

\* A create refused by its handler after `init` had allocated the account:
\* the address holds no account
C10_Witness ==
    /\ last.op = "create"
    /\ OwnAddress(last)
    /\ last.result \in {"InvalidNameLength", "InvalidLogoUriLength"}
    /\ ~Exists(last.identity)
    /\ \E a \in Addresses : Exists(a)

====
